---- MODULE Spec2Model ----
(***************************************************************************)
(* Model of the Orakle capabilities manager of miralAI/malai               *)
(* (src/framework/capabilities_manager.py): the start-up load of skills    *)
(* and recipes, and the request handlers that run afterwards, above all    *)
(* the recipe interpreter execute_recipe.                                  *)
(*                                                                         *)
(* Conventions.  A Python str is a sequence of one-character strings       *)
(* ("$q" is <<"$", "q">>), so that startswith, strip, split and the        *)
(* {$path} pattern are computed and not assumed.  A Python value is a      *)
(* record [type, val, items]: type is the Python type, val the text that   *)
(* str() gives, items the mapping of a dict (empty otherwise).  A dict is  *)
(* a function whose domain is a set of str.                                *)
(***************************************************************************)
EXTENDS Naturals, Sequences, FiniteSets

(***************************************************************************)
(* Python str and dict helpers                                             *)
(***************************************************************************)
EmptyDict == [k \in {} |-> 0]

\* d[k] = v of a Python dict
DictSet(d, k, v) == [x \in (DOMAIN d) \cup {k} |-> IF x = k THEN v ELSE d[x]]

\* v.startswith(c)
StartsWith(v, c) == Len(v) > 0 /\ v[1] = c

RECURSIVE LStrip(_, _)
LStrip(v, c) == IF Len(v) > 0 /\ v[1] = c THEN LStrip(Tail(v), c) ELSE v

RECURSIVE RStrip(_, _)
RStrip(v, c) ==
    IF Len(v) > 0 /\ v[Len(v)] = c THEN RStrip(SubSeq(v, 1, Len(v) - 1), c) ELSE v

\* a strip that removes one leading c and nothing else
StripFirst(v, c) == IF Len(v) > 0 /\ v[1] = c THEN Tail(v) ELSE v

\* v.strip(c)
Strip(v, c) == RStrip(LStrip(v, c), c)

\* index of the first c in v at or after position i, 0 when there is none
RECURSIVE Find(_, _, _)
Find(v, c, i) ==
    IF i > Len(v) THEN 0 ELSE IF v[i] = c THEN i ELSE Find(v, c, i + 1)

\* v.split(c): the list of the pieces between the occurrences of c
RECURSIVE Split(_, _)
Split(v, c) ==
    LET j == Find(v, c, 1)
    IN  IF j = 0 THEN <<v>>
        ELSE <<SubSeq(v, 1, j - 1)>> \o Split(SubSeq(v, j + 1, Len(v)), c)

(***************************************************************************)
(* Python values                                                           *)
(***************************************************************************)
NoValue == [type |-> "none", val |-> <<>>, items |-> EmptyDict]
StrV(s) == [type |-> "str", val |-> s, items |-> EmptyDict]
IntV(digits) == [type |-> "int", val |-> digits, items |-> EmptyDict]
DictV(repr, d) == [type |-> "dict", val |-> repr, items |-> d]

\* str(value): always a str; the text of the value, its structure dropped
PyStr(value) == StrV(value.val)

NoError == [exc |-> "none", kind |-> "none", name |-> <<>>]
Raise(exc, kind, name) == [exc |-> exc, kind |-> kind, name |-> name]

(***************************************************************************)
(* Names used by the skills, the recipes and the payloads                  *)
(***************************************************************************)
s_text == <<"t", "e", "x", "t">>
s_content == <<"c", "o", "n", "t", "e", "n", "t">>
s_error == <<"e", "r", "r", "o", "r">>
s_url == <<"u", "r", "l">>
s_prompt == <<"p", "r", "o", "m", "p", "t">>
s_query == <<"q", "u", "e", "r", "y">>
s_language == <<"l", "a", "n", "g", "u", "a", "g", "e">>
s_sort_by == <<"s", "o", "r", "t", "_", "b", "y">>
s_from_date == <<"f", "r", "o", "m", "_", "d", "a", "t", "e">>
s_to_date == <<"t", "o", "_", "d", "a", "t", "e">>
s_status == <<"s", "t", "a", "t", "u", "s">>
s_q == <<"q">>
s_lang == <<"l", "a", "n", "g">>
s_a == <<"a">>
s_b == <<"b">>
s_d == <<"d">>
s_rust == <<"r", "u", "s", "t">>
s_go == <<"g", "o">>
s_en == <<"e", "n">>
s_http == <<"h", "t", "t", "p", ":", "/", "/", "x">>
s_user == <<"u", "s", "e", "r">>
s_name == <<"n", "a", "m", "e">>
s_Ann == <<"A", "n", "n">>
s_g == <<"g">>
s_h == <<"h">>
s_k == <<"k">>
s_hi == <<"h", "i">>

(***************************************************************************)
(* The skill plugins: src/orakle/skills/*.py                               *)
(***************************************************************************)
HtmlTextParser == <<"Html", "Text", "Parser">>
WebUrlDownloader == <<"Web", "Url", "Downloader">>
TextCompletion == <<"Text", "Completion">>
NewsSearch == <<"News", "Search">>

Param(name, required) == [name |-> name, required |-> required]

\* What inspect sees of each skill class: its flags and the signature of run
\* without the receiver.  hint is the return annotation of run, "" when run
\* has none.
SkillClasses ==
    [c \in {HtmlTextParser, WebUrlDownloader, TextCompletion, NewsSearch} |->
       CASE c = HtmlTextParser ->
              [isAsync |-> FALSE, hint |-> "", hidden |-> FALSE,
               params |-> <<Param(s_text, TRUE)>>]
         [] c = WebUrlDownloader ->
              [isAsync |-> TRUE, hint |-> "", hidden |-> FALSE,
               params |-> <<Param(s_url, TRUE)>>]
         [] c = TextCompletion ->
              [isAsync |-> FALSE, hint |-> "<class 'str'>", hidden |-> TRUE,
               params |-> <<Param(s_prompt, TRUE)>>]
         [] c = NewsSearch ->
              [isAsync |-> TRUE, hint |-> "", hidden |-> FALSE,
               params |-> <<Param(s_query, TRUE), Param(s_language, FALSE),
                            Param(s_sort_by, FALSE), Param(s_from_date, FALSE),
                            Param(s_to_date, FALSE)>>]]

ParamNames(cls) ==
    {SkillClasses[cls].params[i].name : i \in DOMAIN SkillClasses[cls].params}
RequiredNames(cls) ==
    {SkillClasses[cls].params[i].name :
        i \in {j \in DOMAIN SkillClasses[cls].params :
                  SkillClasses[cls].params[j].required}}

Ok(value) == [ok |-> TRUE, value |-> value, err |-> NoError]
Fail(err) == [ok |-> FALSE, value |-> NoValue, err |-> err]

\* HtmlTextParser.run(text): the text of the page, whether text is the html
\* or a dict holding it under 'content'; html that is no str has no encode
HtmlTextParserRun(kw) ==
    LET text == kw[s_text]
        html == IF text.type = "dict"
                THEN (IF s_content \in DOMAIN text.items
                      THEN text.items[s_content] ELSE StrV(<<>>))
                ELSE text
        out == <<"article(">> \o html.val \o <<")">>
    IN  IF html.type # "str"
        THEN Fail(Raise("AttributeError", "skill", <<"e", "n", "c", "o", "d", "e">>))
        ELSE Ok(DictV(<<"{">> \o out \o <<"}">>, [k \in {s_text} |-> StrV(out)]))

\* WebUrlDownloader.run(url): {"content": page} for a valid URL that can be
\* fetched, {"error": message} otherwise; it raises nothing of its own
WebUrlDownloaderRun(kw) ==
    LET url == kw[s_url]
        valid == url.type = "str" /\ StartsWith(url.val, "h")
        out == <<"page(">> \o url.val \o <<")">>
    IN  IF valid
        THEN Ok(DictV(<<"{">> \o out \o <<"}">>, [k \in {s_content} |-> StrV(out)]))
        ELSE Ok(DictV(<<"{", "invalid", "}">>,
                      [k \in {s_error} |-> StrV(<<"invalid">>)]))

\* TextCompletion.run(prompt) -> str: the answer of the LLM, a str
TextCompletionRun(kw) ==
    Ok(StrV(<<"answer(">> \o kw[s_prompt].val \o <<")">>))

SUPPORTED_LANGUAGES ==
    {<<"a", "r">>, <<"d", "e">>, <<"e", "n">>, <<"e", "s">>, <<"f", "r">>,
     <<"h", "e">>, <<"i", "t">>, <<"n", "l">>, <<"n", "o">>, <<"p", "t">>,
     <<"r", "u">>, <<"s", "v">>, <<"z", "h">>}

\* NewsSearch.run(query, language="en", ...): a dict with a status; every
\* failure of its own is returned as {"status": "error"}, never raised
NewsSearchRun(kw) ==
    LET query == kw[s_query]
        language == IF s_language \in DOMAIN kw THEN kw[s_language] ELSE StrV(s_en)
        bad == query.type # "str" \/ query.val = <<>> \/ query.val = s_query
               \/ language.type # "str" \/ language.val \notin SUPPORTED_LANGUAGES
        out == <<"news(">> \o query.val \o <<",">> \o language.val \o <<")">>
    IN  IF bad
        THEN Ok(DictV(<<"{", "error", "}">>,
                      [k \in {s_status} |-> StrV(s_error)]))
        ELSE Ok(DictV(<<"{">> \o out \o <<"}">>, [k \in {s_status} |-> StrV(out)]))

\* skill.run(**kw): Python binds the keywords to the signature first (a
\* missing required parameter or an unknown keyword is a TypeError), then
\* the body of run of that class runs
SkillRun(cls, kw) ==
    IF ~(RequiredNames(cls) \subseteq DOMAIN kw /\ DOMAIN kw \subseteq ParamNames(cls))
    THEN Fail(Raise("TypeError", "skill", <<>>))
    ELSE CASE cls = HtmlTextParser -> HtmlTextParserRun(kw)
           [] cls = WebUrlDownloader -> WebUrlDownloaderRun(kw)
           [] cls = TextCompletion -> TextCompletionRun(kw)
           [] cls = NewsSearch -> NewsSearchRun(kw)

\* what the call skill.run(**kw) itself gives: a coroutine function binds
\* its keywords and returns a coroutine object, its body not run yet; any
\* other function runs to its result
Coroutine == [type |-> "coroutine", val |-> <<"<coroutine>">>, items |-> EmptyDict]

RunCall(cls, kw) ==
    IF SkillClasses[cls].isAsync /\ SkillRun(cls, kw).err.exc # "TypeError"
    THEN Ok(Coroutine)
    ELSE SkillRun(cls, kw)

\* an invocation that never waits for the coroutine
InvokeWithoutAwait(cls, kw) == RunCall(cls, kw)

\* if inspect.iscoroutinefunction(skill.run): the coroutine is awaited (by
\* await in execute_recipe, by async_to_sync in the skill handler) and its
\* completion is the result; else the call is the result
Invoke(cls, kw) ==
    LET called == RunCall(cls, kw)
    IN  IF SkillClasses[cls].isAsync
        THEN (IF called.ok /\ called.value = Coroutine THEN SkillRun(cls, kw)
              ELSE called)
        ELSE called

(***************************************************************************)
(* execute_recipe: the parts of one invocation                             *)
(***************************************************************************)
\* an alias loop that binds the value under the alias it was found under
RECURSIVE SeedAliasesUnderAlias(_, _, _, _)
SeedAliasesUnderAlias(context, name, aliases, params) ==
    IF aliases = <<>> THEN context
    ELSE SeedAliasesUnderAlias(IF Head(aliases) \in DOMAIN params
                               THEN DictSet(context, Head(aliases), params[Head(aliases)])
                               ELSE context,
                               name, Tail(aliases), params)

\* a seeding that stops at the first alias found in the payload
SeedAliasesFirstWins(context, name, aliases, params) ==
    LET present == {a \in DOMAIN aliases : aliases[a] \in DOMAIN params}
    IN  IF present = {} THEN context
        ELSE LET first == CHOOSE a \in present : \A b \in present : a <= b
             IN  DictSet(context, name, params[aliases[first]])

\* for alias in param["aliases"]: if alias in params: context[name] = params[alias]
RECURSIVE SeedAliases(_, _, _, _)
SeedAliases(context, name, aliases, params) ==
    IF aliases = <<>> THEN context
    ELSE SeedAliases(IF Head(aliases) \in DOMAIN params
                     THEN DictSet(context, name, params[Head(aliases)])
                     ELSE context,
                     name, Tail(aliases), params)

\* for param in recipe["parameters"]: the declared name first, then its aliases
RECURSIVE SeedParameters(_, _, _)
SeedParameters(context, parameters, params) ==
    IF parameters = <<>> THEN context
    ELSE LET param == Head(parameters)
             named == IF param.name \in DOMAIN params
                      THEN DictSet(context, param.name, params[param.name])
                      ELSE context
         IN  SeedParameters(SeedAliases(named, param.name, param.aliases, params),
                            Tail(parameters), params)

\* a seeding that starts from a copy of the payload in both cases
SeedContextOverPayload(recipe, params) ==
    IF recipe.hasParameters
    THEN SeedParameters(params, recipe.parameters, params)
    ELSE params

\* the context before the first step: the declared parameters found in the
\* payload, or a copy of the payload when the recipe has no "parameters" key
SeedContext(recipe, params) ==
    IF recipe.hasParameters
    THEN SeedParameters(EmptyDict, recipe.parameters, params)
    ELSE params

\* a check that a parameter of that name is declared, optional or not
ParamIsDeclared(recipe, var_name) ==
    /\ recipe.hasParameters
    /\ \E i \in DOMAIN recipe.parameters : recipe.parameters[i].name = var_name

\* param_is_optional: some declared parameter of that name has optional: true
ParamIsOptional(recipe, var_name) ==
    /\ recipe.hasParameters
    /\ \E i \in DOMAIN recipe.parameters :
          recipe.parameters[i].name = var_name /\ recipe.parameters[i].optional

\* a walk that stops at the first key of the path
WalkPathShallow(value, keys) ==
    IF value.type # "dict" \/ Head(keys) \notin DOMAIN value.items
    THEN Fail(Raise("KeyError", "lookup", Head(keys)))
    ELSE Ok(PyStr(value.items[Head(keys)]))

\* replace_var: walk the dotted path from the context, every key of it
\* through a mapping, and give the str of what is found
RECURSIVE WalkPath(_, _)
WalkPath(value, keys) ==
    IF keys = <<>> THEN Ok(PyStr(value))
    ELSE IF value.type # "dict"
         THEN Fail(Raise("TypeError", "lookup", Head(keys)))
         ELSE IF Head(keys) \notin DOMAIN value.items
              THEN Fail(Raise("KeyError", "lookup", Head(keys)))
              ELSE WalkPath(value.items[Head(keys)], Tail(keys))

\* a replacement that puts nothing where the path does not resolve
ReplaceVarLenient(group1, context) ==
    LET found == WalkPath(DictV(<<>>, context), Split(Strip(group1, "$"), "."))
    IN  IF found.ok THEN found ELSE Ok(StrV(<<>>))

ReplaceVar(group1, context) ==
    WalkPath(DictV(<<>>, context), Split(Strip(group1, "$"), "."))

\* re.sub(r"{(\$[^}]+)}", replace_var, v) from position i on: the leftmost
\* "{$" that is closed by a "}" with at least one character between is
\* replaced, the text around it is kept, and the scan goes on after the "}"
RECURSIVE ReSub(_, _, _)
ReSub(v, i, context) ==
    IF i > Len(v) THEN Ok(StrV(<<>>))
    ELSE LET close == Find(v, "}", i + 2)
             match == /\ v[i] = "{"
                      /\ i + 1 <= Len(v) /\ v[i + 1] = "$"
                      /\ close >= i + 3
         IN  IF match
             THEN LET rep == ReplaceVar(SubSeq(v, i + 1, close - 1), context)
                      rest == ReSub(v, close + 1, context)
                  IN  IF ~rep.ok THEN rep
                      ELSE IF ~rest.ok THEN rest
                      ELSE Ok(StrV(rep.value.val \o rest.value.val))
             ELSE LET rest == ReSub(v, i + 1, context)
                  IN  IF ~rest.ok THEN rest
                      ELSE Ok(StrV(<<v[i]>> \o rest.value.val))

\* a direct reference that passes the text of the value
DirectValueAsStr(context, var_name) == PyStr(context[var_name])

\* what a direct reference "$name" puts into the input
DirectValue(context, var_name) == context[var_name]

\* an entry whose reference to an absent variable gives the empty string
ResolveEntryLenient(recipe, context, v) ==
    IF v.type = "str"
    THEN IF StartsWith(v.val, "$")
         THEN [ok |-> TRUE, skip |-> FALSE,
               value |-> IF Strip(v.val, "$") \in DOMAIN context
                         THEN DirectValue(context, Strip(v.val, "$"))
                         ELSE StrV(<<>>),
               err |-> NoError]
         ELSE LET r == ReSub(v.val, 1, context)
              IN  [ok |-> r.ok, skip |-> FALSE, value |-> r.value, err |-> r.err]
    ELSE [ok |-> TRUE, skip |-> FALSE, value |-> v, err |-> NoError]

\* one entry k: v of a mapping input: [ok, skip, value, err]
ResolveEntry(recipe, context, v) ==
    IF v.type = "str"
    THEN IF StartsWith(v.val, "$")
         THEN LET var_name == Strip(v.val, "$")
              IN  IF var_name \notin DOMAIN context
                  THEN IF ParamIsOptional(recipe, var_name)
                       THEN [ok |-> TRUE, skip |-> TRUE, value |-> NoValue,
                             err |-> NoError]
                       ELSE [ok |-> FALSE, skip |-> FALSE, value |-> NoValue,
                             err |-> Raise("KeyError", "required", var_name)]
                  ELSE [ok |-> TRUE, skip |-> FALSE,
                        value |-> DirectValue(context, var_name), err |-> NoError]
         ELSE LET r == ReSub(v.val, 1, context)
              IN  [ok |-> r.ok, skip |-> FALSE, value |-> r.value, err |-> r.err]
    ELSE [ok |-> TRUE, skip |-> FALSE, value |-> v, err |-> NoError]

\* a loop that passes None for an optional variable that is absent
RECURSIVE ResolveEntriesWithNone(_, _, _, _)
ResolveEntriesWithNone(recipe, context, entries, input_params) ==
    IF entries = <<>> THEN [ok |-> TRUE, input |-> input_params, err |-> NoError]
    ELSE LET r == ResolveEntry(recipe, context, Head(entries).v)
         IN  IF ~r.ok THEN [ok |-> FALSE, input |-> EmptyDict, err |-> r.err]
             ELSE ResolveEntriesWithNone(recipe, context, Tail(entries),
                                 DictSet(input_params, Head(entries).k, r.value))

\* for k, v in step["input"].items(): the entries in their order; the first
\* error ends the loop
RECURSIVE ResolveEntries(_, _, _, _)
ResolveEntries(recipe, context, entries, input_params) ==
    IF entries = <<>> THEN [ok |-> TRUE, input |-> input_params, err |-> NoError]
    ELSE LET r == ResolveEntry(recipe, context, Head(entries).v)
         IN  IF ~r.ok THEN [ok |-> FALSE, input |-> EmptyDict, err |-> r.err]
             ELSE ResolveEntries(recipe, context, Tail(entries),
                                 IF r.skip THEN input_params
                                 ELSE DictSet(input_params, Head(entries).k, r.value))

\* a step input that is no mapping: context[step["input"]], the expression
\* itself being the key, under the first parameter of run
ResolveSingle(cls, context, input) ==
    IF input.type # "str" \/ input.val \notin DOMAIN context
    THEN [ok |-> FALSE, input |-> EmptyDict,
          err |-> Raise("KeyError", "lookup", input.val)]
    ELSE [ok |-> TRUE,
          input |-> [k \in {SkillClasses[cls].params[1].name} |-> context[input.val]],
          err |-> NoError]

\* the input parameters of a step: [ok, input, err]
BuildInput(recipe, step, cls, context) ==
    IF step.inputIsDict
    THEN ResolveEntries(recipe, context, step.input, EmptyDict)
    ELSE ResolveSingle(cls, context, step.single)

(***************************************************************************)
(* The plugin directory and the recipe directory read at start-up          *)
(***************************************************************************)
Words == {"html", "text", "parser", "web", "url", "downloader", "completion",
          "news", "search", "utils"}

\* word.title() and its inverse .lower(), on the words of the file names
Title(word) ==
    CASE word = "html" -> "Html" [] word = "text" -> "Text"
      [] word = "parser" -> "Parser" [] word = "web" -> "Web"
      [] word = "url" -> "Url" [] word = "downloader" -> "Downloader"
      [] word = "completion" -> "Completion" [] word = "news" -> "News"
      [] word = "search" -> "Search" [] word = "utils" -> "Utils"
      [] OTHER -> word

Lower(word) ==
    IF \E w \in Words : Title(w) = word
    THEN CHOOSE w \in Words : Title(w) = word
    ELSE word

\* "".join(word.title() for word in stem.split("_")); a stem is the
\* sequence of its words and of the "_" between them
RECURSIVE JoinTitle(_)
JoinTitle(pieces) ==
    IF pieces = <<>> THEN <<>>
    ELSE [i \in DOMAIN Head(pieces) |-> Title(Head(pieces)[i])]
         \o JoinTitle(Tail(pieces))

ClassName(stem) == JoinTitle(Split(stem, "_"))

\* camel_to_snake: an underscore before every capitalised word but the
\* first, and all of it in lower case
CamelToSnake(name) ==
    IF name = <<>> THEN <<>>
    ELSE [i \in 1..(2 * Len(name) - 1) |->
            IF i % 2 = 1 THEN Lower(name[(i + 1) \div 2]) ELSE "_"]

\* a file of the skills directory: its stem, whether importing it
\* succeeds, the classes the module defines and what the constructor of the
\* expected class raises ("none" when it returns)
PluginFile(stem, importable, classes, ctor) ==
    [stem |-> stem, importable |-> importable, classes |-> classes, ctor |-> ctor]

html_text_parser ==
    PluginFile(<<"html", "_", "text", "_", "parser">>, TRUE, {HtmlTextParser}, "none")
web_url_downloader ==
    PluginFile(<<"web", "_", "url", "_", "downloader">>, TRUE, {WebUrlDownloader}, "none")
text_completion ==
    PluginFile(<<"text", "_", "completion">>, TRUE, {TextCompletion}, "none")
news_search ==
    PluginFile(<<"news", "_", "search">>, TRUE, {NewsSearch}, "none")

\* a second file whose stem gives the class name NewsSearch, a module of
\* helpers that defines no class Utils, and the __init__.py of the package
news__search ==
    PluginFile(<<"news", "_", "_", "search">>, TRUE, {NewsSearch}, "none")
utils == PluginFile(<<"utils">>, TRUE, {}, "none")
dunder_init == PluginFile(<<"_", "_", "init", "_", "_">>, TRUE, {}, "none")

\* the same file where its imports cannot be resolved
Unimportable(file) == [file EXCEPT !.importable = FALSE]

\* the same file where the constructor of its class raises exc
CtorRaises(file, exc) == [file EXCEPT !.ctor = exc]

\* what skills_dir.glob("*.py") may yield, in the order it yields it: the
\* four plugins importable, or two of them not (text_completion and
\* news_search import the package ainara, the other two the package malai),
\* the files that are passed over being scanned first, between others or last,
\* or the constructors of two classes raising (TextCompletion builds its LLM
\* backend, NewsSearch its API client)
SkillDirs ==
    {<<html_text_parser, web_url_downloader, utils, text_completion, news_search,
       news__search>>,
     <<Unimportable(news_search), dunder_init, html_text_parser, utils,
       web_url_downloader, Unimportable(text_completion)>>,
     <<CtorRaises(text_completion, "ImportError"), html_text_parser,
       CtorRaises(news_search, "ValueError"), web_url_downloader>>}

\* a declared parameter of a recipe; no "aliases" key is an empty list here
Parameter(name, aliases, optional) ==
    [name |-> name, aliases |-> aliases, optional |-> optional]

Entry(k, v) == [k |-> k, v |-> v]

\* a flow step whose input is a mapping (its entries in file order), and one
\* whose input is a single expression; output_type is "" until it is set
MapStep(skill, entries, output) ==
    [skill |-> skill, inputIsDict |-> TRUE, input |-> entries,
     single |-> NoValue, output |-> output, output_type |-> ""]
SingleStep(skill, expr, output) ==
    [skill |-> skill, inputIsDict |-> FALSE, input |-> <<>>,
     single |-> expr, output |-> output, output_type |-> ""]

\* download a page and extract its text: step 1 writes its output under the
\* name of the parameter it read, and step 2 consumes it under that name
RecipeChain ==
    [endpoint |-> <<"/chain">>, method |-> "POST", hasParameters |-> TRUE,
     parameters |-> <<Parameter(s_url, <<>>, FALSE)>>,
     required_skills |-> <<WebUrlDownloader, HtmlTextParser>>,
     flow |-> <<MapStep(WebUrlDownloader,
                        <<Entry(s_url, StrV(<<"$">> \o s_url))>>, s_url),
                MapStep(HtmlTextParser,
                        <<Entry(s_text, StrV(<<"$">> \o s_url))>>, s_b)>>]

\* search news: a parameter with an alias, an optional one and a required
\* one; the output key is the name of the optional parameter
RecipeNews ==
    [endpoint |-> <<"/news">>, method |-> "POST", hasParameters |-> TRUE,
     parameters |-> <<Parameter(s_q, <<s_query>>, FALSE),
                      Parameter(s_lang, <<>>, TRUE),
                      Parameter(s_d, <<>>, FALSE)>>,
     required_skills |-> <<NewsSearch>>,
     flow |-> <<MapStep(NewsSearch,
                        <<Entry(s_language, StrV(<<"$">> \o s_lang)),
                          Entry(s_query, StrV(<<"$", "q">>)),
                          Entry(s_from_date, StrV(<<"$", "d">>)),
                          Entry(s_sort_by, StrV(<<"d", "a", "t", "e">>))>>,
                        s_lang)>>]

\* summarise a page: no "parameters" key, a single-expression input, an
\* embedded template, and one output key for both steps
RecipeSummary ==
    [endpoint |-> <<"/summary">>, method |-> "POST", hasParameters |-> FALSE,
     parameters |-> <<>>,
     required_skills |-> <<HtmlTextParser, TextCompletion>>,
     flow |-> <<SingleStep(HtmlTextParser, StrV(s_text), s_a),
                MapStep(TextCompletion,
                        <<Entry(s_prompt,
                                StrV(<<"S", ":", "{", "$", "a", ".">> \o s_text
                                     \o <<"}", "!">>))>>,
                        s_a)>>]

\* an input string with embedded templates, given by its parts: literal
\* text (Lit) and {$path} with the keys of the dotted path (Var)
Lit(text) == [var |-> FALSE, text |-> text, path |-> <<>>]
Var(path) == [var |-> TRUE, text |-> <<>>, path |-> path]

RECURSIVE JoinDots(_)
JoinDots(path) ==
    IF Len(path) = 1 THEN path[1]
    ELSE path[1] \o <<".">> \o JoinDots(Tail(path))

RECURSIVE TemplateText(_)
TemplateText(parts) ==
    IF parts = <<>> THEN <<>>
    ELSE (IF Head(parts).var
          THEN <<"{", "$">> \o JoinDots(Head(parts).path) \o <<"}">>
          ELSE Head(parts).text)
         \o TemplateText(Tail(parts))

\* "Hello {$user.name}!" and "{$user.name}-{$d}{$user.name}"
HelloTemplate ==
    <<Lit(<<"H", "e", "l", "l", "o", " ">>), Var(<<s_user, s_name>>), Lit(<<"!">>)>>
SortTemplate ==
    <<Var(<<s_user, s_name>>), Lit(<<"-">>), Var(<<s_d>>), Var(<<s_user, s_name>>)>>

\* the parameter name "d{$user.name}": the text of the input value
\* "$d{$user.name}" without its "$"
s_d_user == s_d \o TemplateText(<<Var(<<s_user, s_name>>)>>)

\* greet and search: no "required_skills" key although the flow uses two
\* skills, two inputs with embedded templates, and a step on a seeded value;
\* d has two aliases, and the references to it are written "$$d" and "$d$";
\* the first input value begins with "$" and goes on with a template
RecipeDigest ==
    [endpoint |-> <<"/digest">>, method |-> "POST", hasParameters |-> TRUE,
     parameters |-> <<Parameter(s_user, <<>>, TRUE),
                      Parameter(s_d, <<s_q, s_lang>>, FALSE),
                      Parameter(s_d_user, <<s_query>>, FALSE)>>,
     required_skills |-> <<>>,
     flow |-> <<MapStep(NewsSearch,
                        <<Entry(s_to_date, StrV(<<"$">> \o s_d_user)),
                          Entry(s_query, StrV(TemplateText(HelloTemplate))),
                          Entry(s_from_date, StrV(<<"$", "$", "d">>)),
                          Entry(s_sort_by, StrV(TemplateText(SortTemplate)))>>,
                        s_g),
                MapStep(HtmlTextParser,
                        <<Entry(s_text, StrV(<<"$", "d", "$">>))>>, s_h)>>]

\* extract the text of a prompt: step 1 reads the name that only step 2
\* writes, and the single-expression input of step 2 is "$prompt"
RecipeParse ==
    [endpoint |-> <<"/parse">>, method |-> "POST", hasParameters |-> FALSE,
     parameters |-> <<>>,
     required_skills |-> <<HtmlTextParser>>,
     flow |-> <<MapStep(HtmlTextParser,
                        <<Entry(s_text, StrV(<<"$">> \o s_prompt))>>, s_k),
                SingleStep(HtmlTextParser, StrV(<<"$">> \o s_prompt), s_prompt)>>]

\* a file of the recipes directory: a definition, or text that yaml cannot load
RecipeFile(recipe) == [loads |-> TRUE, recipe |-> recipe]
BrokenFile == [loads |-> FALSE, recipe |-> RecipeChain]

\* what recipes_dir.glob("*.yaml") may yield
RecipeDirs ==
    {<<RecipeFile(RecipeNews), BrokenFile, RecipeFile(RecipeChain),
       RecipeFile(RecipeSummary), RecipeFile(RecipeDigest),
       RecipeFile(RecipeParse)>>}

\* request bodies: JSON objects, and a body that is not JSON
Body(json) == [is_json |-> TRUE, json |-> json]
NotJson == [is_json |-> FALSE, json |-> EmptyDict]

PayloadA ==
    [k \in {s_url, s_text, s_query, s_d, s_user} |->
       CASE k = s_url -> StrV(s_http)
         [] k = s_text -> StrV(<<"<", "p", ">">>)
         [] k = s_query -> StrV(s_rust)
         [] k = s_d -> IntV(<<"5">>)
         [] k = s_user -> DictV(<<"{", "'name': 'Ann'", "}">>,
                                [n \in {s_name} |-> StrV(s_Ann)])]
PayloadB ==
    [k \in {s_url, s_text, s_q, s_query, s_lang, s_d, s_user} |->
       CASE k = s_url -> StrV(<<"f", "t", "p">>)
         [] k = s_text -> IntV(<<"7">>)
         [] k = s_q -> StrV(s_go)
         [] k = s_query -> StrV(s_rust)
         [] k = s_lang -> StrV(<<"e", "s">>)
         [] k = s_d -> IntV(<<"6">>)
         [] k = s_user -> DictV(<<"{", "}">>, EmptyDict)]
PayloadC == [k \in {s_query} |-> StrV(s_rust)]
PayloadD == [k \in {s_prompt} |-> StrV(s_hi)]

Bodies == {Body(PayloadA), Body(PayloadB), Body(PayloadC), Body(PayloadD), NotJson}

\* the bodies sent to the direct route of a skill: the parameters of one
\* skill (of NewsSearch, of TextCompletion), which the run of every other
\* skill refuses, and a body that is not JSON
SkillBodies == {Body(PayloadC), Body(PayloadD), NotJson}

(***************************************************************************)
(* State                                                                   *)
(***************************************************************************)
\* the number of requests the gateway serves in one run of the model
NReq == 2

VARIABLES
    phase,         \* where CapabilitiesManager.__init__ is, then "serving"
    skill_files,   \* what the glob of the skills directory yields
    recipe_files,  \* what the glob of the recipes directory yields
    scanned,       \* how many files of the directory being loaded are done
    skills,        \* self.skills: class name -> instance
    recipes,       \* self.recipes: endpoint -> recipe definition
    routes,        \* the routes registered with the Flask app
    requests,      \* the requests: each one call of a route's handler
    contexts       \* the local variable context of each call of execute_recipe

vars == <<phase, skill_files, recipe_files, scanned, skills, recipes, routes,
          requests, contexts>>

\* a route of the app: of a skill (name is its class name), of a recipe
\* (name is its endpoint) or the capabilities route
Route(kind, name) == [kind |-> kind, name |-> name]
SkillRoutePath(skill_name) == <<"/skills/">> \o CamelToSnake(skill_name)
RecipeRoutePath(endpoint) == <<"/recipes">> \o endpoint

NoResponse == [status |-> 0, ctype |-> "", body |-> NoValue]
EmptyCapabilities == [skills |-> EmptyDict, recipes |-> EmptyDict]

IdleRequest ==
    [kind |-> "none", state |-> "idle", target |-> <<>>, body |-> NotJson,
     step |-> 0, input |-> EmptyDict, calls |-> <<>>,
     result |-> NoValue, err |-> NoError, response |-> NoResponse,
     capabilities |-> EmptyCapabilities]

Init ==
    /\ phase = "load_skills"
    /\ skill_files \in SkillDirs
    /\ recipe_files \in RecipeDirs
    /\ scanned = 0
    /\ skills = EmptyDict
    /\ recipes = EmptyDict
    /\ routes = {}
    /\ requests = [i \in 1..NReq |-> IdleRequest]
    /\ contexts = [i \in 1..NReq |-> EmptyDict]

(***************************************************************************)
(* CapabilitiesManager.__init__: the start-up load                         *)
(***************************************************************************)
\* the instance load_skills makes of the class a file defines
Instance(file) == [file |-> file.stem, cls |-> ClassName(file.stem)]

\* a loop that a file that cannot be loaded brings to an end
LoadOutcomeAbort(file) ==
    IF ~file.importable \/ ClassName(file.stem) \notin file.classes THEN "raise"
    ELSE "load"

\* a loop that logs and passes over whatever the constructor raises
LoadOutcomeContained(file) ==
    IF Len(file.stem) >= 2 /\ file.stem[1] = "_" /\ file.stem[2] = "_" THEN "skip"
    ELSE IF ~file.importable THEN "skip"
    ELSE IF ClassName(file.stem) \notin file.classes THEN "skip"
    ELSE IF file.ctor # "none" THEN "skip"
    ELSE "load"

\* one pass of the body of the loop of load_skills over a file:
\* "skip" (a dunder file, a logged ImportError or AttributeError),
\* "raise" (any other exception of the constructor leaves the loop) or "load"
LoadOutcome(file) ==
    IF Len(file.stem) >= 2 /\ file.stem[1] = "_" /\ file.stem[2] = "_" THEN "skip"
    ELSE IF ~file.importable THEN "skip"
    ELSE IF ClassName(file.stem) \notin file.classes THEN "skip"
    ELSE IF file.ctor \in {"ImportError", "AttributeError"} THEN "skip"
    ELSE IF file.ctor # "none" THEN "raise"
    ELSE "load"

LoadSkill ==
    /\ phase = "load_skills"
    /\ scanned < Len(skill_files)
    /\ LET file == skill_files[scanned + 1]
           outcome == LoadOutcome(file)
       IN  /\ skills' = IF outcome = "load"
                        THEN DictSet(skills, ClassName(file.stem), Instance(file))
                        ELSE skills
           /\ phase' = IF outcome = "raise" THEN "crashed" ELSE phase
    /\ scanned' = scanned + 1
    /\ UNCHANGED <<skill_files, recipe_files, recipes, routes, requests, contexts>>

\* register_skills_endpoints, entered when the loop of load_skills is over
RegisterSkillsEndpoints ==
    /\ phase = "load_skills"
    /\ scanned = Len(skill_files)
    /\ routes' = routes \cup {Route("skill", c) : c \in DOMAIN skills}
    /\ phase' = "register_recipes_endpoints"
    /\ scanned' = 0
    /\ UNCHANGED <<skill_files, recipe_files, skills, recipes, requests, contexts>>

\* missing_skills: the required skills that are not in self.skills
MissingSkills(recipe, registry) ==
    {recipe.required_skills[i] : i \in DOMAIN recipe.required_skills}
        \ DOMAIN registry

\* a loop that registers every file that loads, its skills unchecked
RecipeAcceptedUnchecked(file, registry) == file.loads

\* one pass of the loop of register_recipes_endpoints over a file: a file
\* that does not load, or one with missing skills, is logged and passed over
RecipeAccepted(file, registry) ==
    file.loads /\ MissingSkills(file.recipe, registry) = {}

LoadRecipe ==
    /\ phase = "register_recipes_endpoints"
    /\ scanned < Len(recipe_files)
    /\ LET file == recipe_files[scanned + 1]
           recipe == file.recipe
       IN  IF RecipeAccepted(file, skills)
           THEN /\ recipes' = DictSet(recipes, recipe.endpoint, recipe)
                /\ routes' = routes \cup {Route("recipe", recipe.endpoint)}
           ELSE UNCHANGED <<recipes, routes>>
    /\ scanned' = scanned + 1
    /\ UNCHANGED <<phase, skill_files, recipe_files, skills, requests, contexts>>

\* register_capabilities_endpoint, after the loop over the recipe files
RegisterCapabilitiesEndpoint ==
    /\ phase = "register_recipes_endpoints"
    /\ scanned = Len(recipe_files)
    /\ routes' = routes \cup {Route("capabilities", <<>>)}
    /\ phase' = "serving"
    /\ UNCHANGED <<skill_files, recipe_files, scanned, skills, recipes, requests, contexts>>

(***************************************************************************)
(* The handlers of the routes                                              *)
(***************************************************************************)
\* a handler that passes every result to jsonify
ResultResponseJson(result) ==
    [status |-> 200, ctype |-> "application/json", body |-> result]

\* what a handler returns for a result: a dict as JSON, anything else as
\* text/plain
ResultResponse(result) ==
    [status |-> 200,
     ctype |-> IF result.type = "dict" THEN "application/json" ELSE "text/plain",
     body |-> result]

\* jsonify({"error": str(e)}), status
ErrorResponse(err, status) ==
    [status |-> status, ctype |-> "application/json",
     body |-> DictV(<<"{", "error", "}">>,
                    [k \in {s_error} |-> StrV(<<err.exc, err.kind>> \o err.name)])]

NotJsonError == Raise("none", "Request must be JSON", <<>>)

\* the request ends with a result
Succeed(r, result) ==
    [r EXCEPT !.state = "done", !.result = result,
              !.response = ResultResponse(result)]

\* a handler that answers the result of the last completed step, if any
AbortWithPartial(r, err) ==
    IF Len(r.calls) >= 2
    THEN [r EXCEPT !.state = "done", !.err = err,
                   !.result = r.calls[Len(r.calls) - 1].result,
                   !.response = ResultResponse(r.calls[Len(r.calls) - 1].result)]
    ELSE [r EXCEPT !.state = "done", !.err = err, !.response = ErrorResponse(err, 500)]

\* the request ends with the exception the handler caught
Abort(r, err) ==
    [r EXCEPT !.state = "done", !.err = err, !.response = ErrorResponse(err, 500)]

\* requests are numbered as they arrive
Arrives(i) ==
    /\ phase = "serving"
    /\ requests[i].state = "idle"
    /\ i > 1 => requests[i - 1].state # "idle"

\* get_capabilities: the skills that are not hidden, under their snake
\* names, and the declared fields of every recipe of the table
SkillInfo(cls) ==
    [return_type |-> SkillClasses[cls].hint,
     parameters |-> {SkillClasses[cls].params[j] : j \in DOMAIN SkillClasses[cls].params}]

RecipeInfo(endpoint, recipe) ==
    [endpoint |-> endpoint, method |-> recipe.method,
     required_skills |-> recipe.required_skills,
     parameters |-> recipe.parameters, flow |-> recipe.flow]

\* a listing that leaves no skill out
GetCapabilitiesAll(registry, table) ==
    [skills |-> [n \in {CamelToSnake(c) : c \in DOMAIN registry} |->
                   SkillInfo((CHOOSE c \in DOMAIN registry : CamelToSnake(c) = n))],
     recipes |-> [e \in DOMAIN table |-> RecipeInfo(e, table[e])]]

GetCapabilities(registry, table) ==
    LET listed == {c \in DOMAIN registry : ~SkillClasses[registry[c].cls].hidden}
    IN  [skills |-> [n \in {CamelToSnake(c) : c \in listed} |->
                       SkillInfo((CHOOSE c \in listed : CamelToSnake(c) = n))],
         recipes |-> [e \in DOMAIN table |-> RecipeInfo(e, table[e])]]

\* GET /capabilities
CapabilitiesRequest(i) ==
    /\ Arrives(i)
    /\ Route("capabilities", <<>>) \in routes
    /\ requests' = [requests EXCEPT ![i] =
          [@ EXCEPT !.kind = "capabilities", !.state = "done",
                    !.capabilities = GetCapabilities(skills, recipes),
                    !.response = [status |-> 200, ctype |-> "application/json",
                                  body |-> NoValue]]]
    /\ UNCHANGED <<phase, skill_files, recipe_files, scanned, skills, recipes, routes,
                   contexts>>

\* POST /skills/{id}: the handler made by create_skill_handler
SkillRequest(i) ==
    /\ Arrives(i)
    /\ \E route \in routes, body \in SkillBodies :
          /\ route.kind = "skill"
          /\ LET r == [requests[i] EXCEPT !.kind = "skill", !.target = route.name,
                                          !.body = body]
                 run == Invoke(skills[route.name].cls, body.json)
             IN  requests' = [requests EXCEPT ![i] =
                    IF ~body.is_json
                    THEN [r EXCEPT !.state = "done",
                                   !.response = ErrorResponse(NotJsonError, 400)]
                    ELSE IF run.ok THEN Succeed(r, run.value)
                    ELSE Abort(r, run.err)]
    /\ UNCHANGED <<phase, skill_files, recipe_files, scanned, skills, recipes, routes,
                   contexts>>

\* a loop that never leaves the first step
StepOrderStuck(flow, n) == 1

\* the position in the flow of the n-th step the loop of execute_recipe visits
StepOrder(flow, n) == n

\* a return of the output of the first step
FinalResultOfFirst(recipe, context) ==
    IF recipe.flow = <<>> THEN Fail(Raise("IndexError", "flow", <<>>))
    ELSE LET key == recipe.flow[1].output
         IN  IF key \in DOMAIN context THEN Ok(context[key])
             ELSE Fail(Raise("KeyError", "lookup", key))

\* return context[recipe["flow"][-1]["output"]]
FinalResult(recipe, context) ==
    IF recipe.flow = <<>> THEN Fail(Raise("IndexError", "flow", <<>>))
    ELSE LET key == recipe.flow[Len(recipe.flow)].output
         IN  IF key \in DOMAIN context THEN Ok(context[key])
             ELSE Fail(Raise("KeyError", "lookup", key))

\* a store that keeps the entry the context already has under the key
StoreResultKeep(context, step, result) ==
    IF step.output \in DOMAIN context THEN context
    ELSE DictSet(context, step.output, result)

\* context[step["output"]] = result
StoreResult(context, step, result) == DictSet(context, step.output, result)

\* one context kept on the manager and used by every call
FrameOfManager(i) == 1

\* the frame of the call of execute_recipe made for request i: context is
\* a local variable of that call
Frame(i) == i

\* a wait that ends only when no call of the process is inside a skill
RunnableAlone(i) ==
    /\ requests[i].state = "running"
    /\ \A j \in 1..NReq : requests[j].state # "in_skill"

\* the call of execute_recipe made for request i is between two steps: each
\* handler runs async_to_sync(self.execute_recipe) for its own request, and
\* the call waits for nothing but the skill.run it has entered itself
Runnable(i) == requests[i].state = "running"

\* a recipe route: the handler made by create_recipe_handler enters
\* execute_recipe, which takes the recipe from the table and seeds the context
RecipeRequest(i) ==
    /\ Arrives(i)
    /\ \E route \in routes, body \in Bodies :
          /\ route.kind = "recipe"
          /\ LET r == [requests[i] EXCEPT !.kind = "recipe", !.target = route.name,
                                          !.body = body]
             IN  IF ~body.is_json
                 THEN /\ requests' = [requests EXCEPT ![i] =
                            [r EXCEPT !.state = "done",
                                      !.response = ErrorResponse(NotJsonError, 400)]]
                      /\ UNCHANGED contexts
                 ELSE IF route.name \notin DOMAIN recipes
                 THEN /\ requests' = [requests EXCEPT ![i] =
                            Abort(r, Raise("KeyError", "recipe", route.name))]
                      /\ UNCHANGED contexts
                 ELSE /\ requests' = [requests EXCEPT ![i] =
                            [r EXCEPT !.state = "running", !.step = 1]]
                      /\ contexts' = [contexts EXCEPT ![Frame(i)] =
                            SeedContext(recipes[route.name], body.json)]
    /\ UNCHANGED <<phase, skill_files, recipe_files, scanned, skills, recipes, routes>>

\* one pass of the loop over the flow up to the call of skill.run: the skill
\* is looked up, the input is built, the return hint of run is written into
\* the step as output_type, and run is entered
BeginStep(i) ==
    /\ Runnable(i)
    /\ LET r == requests[i]
           recipe == recipes[r.target]
       IN  /\ r.step <= Len(recipe.flow)
           /\ LET pos == StepOrder(recipe.flow, r.step)
                  step == recipe.flow[pos]
              IN  IF step.skill \notin DOMAIN skills
                  THEN /\ requests' = [requests EXCEPT ![i] =
                             Abort(r, Raise("KeyError", "skill", step.skill))]
                       /\ UNCHANGED recipes
                  ELSE LET cls == skills[step.skill].cls
                           built == BuildInput(recipe, step, cls, contexts[Frame(i)])
                           hint == SkillClasses[cls].hint
                       IN  IF ~built.ok
                           THEN /\ requests' = [requests EXCEPT ![i] = Abort(r, built.err)]
                                /\ UNCHANGED recipes
                           ELSE /\ requests' = [requests EXCEPT ![i] =
                                      [r EXCEPT !.state = "in_skill",
                                                !.input = built.input,
                                                !.calls = Append(@,
                                                   [skill |-> step.skill,
                                                    output |-> step.output,
                                                    input |-> built.input,
                                                    result |-> NoValue])]]
                                /\ recipes' = IF hint = "" THEN recipes
                                              ELSE [recipes EXCEPT
                                                 ![r.target].flow[pos].output_type = hint]
    /\ UNCHANGED <<phase, skill_files, recipe_files, scanned, skills, routes, contexts>>

\* skill.run returns or raises: the result is stored under the output key
\* of the step and the loop goes on, or the exception leaves execute_recipe
EndStep(i) ==
    /\ requests[i].state = "in_skill"
    /\ LET r == requests[i]
           recipe == recipes[r.target]
           step == recipe.flow[StepOrder(recipe.flow, r.step)]
           run == Invoke(skills[step.skill].cls, r.input)
       IN  IF ~run.ok
           THEN /\ requests' = [requests EXCEPT ![i] = Abort(r, run.err)]
                /\ UNCHANGED contexts
           ELSE /\ requests' = [requests EXCEPT ![i] =
                      [r EXCEPT !.state = "running", !.step = @ + 1,
                                !.input = EmptyDict,
                                !.calls[Len(r.calls)].result = run.value]]
                /\ contexts' = [contexts EXCEPT ![Frame(i)] =
                      StoreResult(@, step, run.value)]
    /\ UNCHANGED <<phase, skill_files, recipe_files, scanned, skills, recipes, routes>>

\* the loop is over: execute_recipe returns and the handler answers
Return(i) ==
    /\ Runnable(i)
    /\ LET r == requests[i]
           recipe == recipes[r.target]
           final == FinalResult(recipe, contexts[Frame(i)])
       IN  /\ r.step > Len(recipe.flow)
           /\ requests' = [requests EXCEPT ![i] =
                 IF final.ok THEN Succeed(r, final.value) ELSE Abort(r, final.err)]
    /\ UNCHANGED <<phase, skill_files, recipe_files, scanned, skills, recipes, routes,
                   contexts>>

Next ==
    \/ LoadSkill
    \/ RegisterSkillsEndpoints
    \/ LoadRecipe
    \/ RegisterCapabilitiesEndpoint
    \/ \E i \in 1..NReq : CapabilitiesRequest(i)
    \/ \E i \in 1..NReq : SkillRequest(i)
    \/ \E i \in 1..NReq : RecipeRequest(i)
    \/ \E i \in 1..NReq : BeginStep(i)
    \/ \E i \in 1..NReq : EndStep(i)
    \/ \E i \in 1..NReq : Return(i)

Spec == Init /\ [][Next]_vars

\* an invocation that has a step to take: the pass of the loop it is
\* about to make, the return of the loop, or the return of the skill it is in
StepEnabled(i) == Runnable(i) \/ requests[i].state = "in_skill"

\* the server runs each handler on a thread of its own (app.run), so a
\* call of execute_recipe that has a step to take takes it in the end, and
\* the skills it enters return; this is asked of every request but the
\* first, whose skill may never return (weak fairness of the steps of a
\* request, the enabling condition written out)
Fairness ==
    \A i \in 2..NReq :
       \/ []<>(~StepEnabled(i))
       \/ []<><<BeginStep(i) \/ EndStep(i) \/ Return(i)>>_vars

FairSpec == Spec /\ Fairness

(***************************************************************************)
(* Properties                                                              *)
(***************************************************************************)
RecipeRequests == {i \in 1..NReq : requests[i].kind = "recipe"}
Succeeded(r) == r.state = "done" /\ r.response.status = 200
Failed(r) == r.state = "done" /\ r.response.status = 500
FlowOf(r) == recipes[r.target].flow

\* C1: when execute_recipe succeeds, the value returned (and answered by the
\* handler) is the value the skill of the last flow step returned, the one
\* stored under the output key of the last step.
C1_ReturnsLastStepResult ==
    \A i \in RecipeRequests :
       LET r == requests[i]
           n == Len(r.calls)
       IN  Succeeded(r) =>
             /\ n = Len(FlowOf(r)) /\ n > 0
             /\ r.calls[n].skill = FlowOf(r)[n].skill
             /\ r.calls[n].output = FlowOf(r)[n].output
             /\ r.result = r.calls[n].result
             /\ r.response.body = r.calls[n].result

\* a two-step recipe has succeeded, and step 1 returned another value than
\* the one returned to the caller
C1_Witness ==
    \E i \in RecipeRequests :
       /\ Succeeded(requests[i])
       /\ Len(requests[i].calls) = 2
       /\ requests[i].calls[1].result # requests[i].result

\* C2: in one invocation the skills are invoked in the order of the flow,
\* each step at most once: the invocations made so far are the first steps
\* of the flow, one invocation per step, and on success they are all of them.
C2_StepsInFlowOrder ==
    \A i \in RecipeRequests :
       LET r == requests[i]
       IN  /\ Len(r.calls) <= Len(FlowOf(r))
           /\ \A k \in DOMAIN r.calls :
                 /\ r.calls[k].skill = FlowOf(r)[k].skill
                 /\ r.calls[k].output = FlowOf(r)[k].output
           /\ Succeeded(r) => Len(r.calls) = Len(FlowOf(r))

\* both steps of a two-step flow have been invoked
C2_Witness ==
    \E i \in RecipeRequests :
       /\ Succeeded(requests[i])
       /\ Len(requests[i].calls) = 2
       /\ requests[i].calls[1].skill # requests[i].calls[2].skill

\* the context an invocation holds after its first k skill invocations have
\* returned: what its own payload seeded, then its own results in order
RECURSIVE OwnContext(_, _)
OwnContext(r, k) ==
    IF k = 0 THEN SeedContext(recipes[r.target], r.body.json)
    ELSE DictSet(OwnContext(r, k - 1), r.calls[k].output, r.calls[k].result)

\* the value is "$name" for a name without "$"
IsDirectRef(v) ==
    /\ v.type = "str"
    /\ Len(v.val) >= 2
    /\ v.val[1] = "$"
    /\ \A j \in 2..Len(v.val) : v.val[j] # "$"
RefName(v) == Tail(v.val)

\* C3: an entry k: "$a" of a mapping input, with a in the context when the
\* step is evaluated, gives the skill under k the context value of a itself
\* (same type, same content), be it a seeded parameter or the result an
\* earlier step stored under a.
C3_DirectReferencePassesValue ==
    \A i \in RecipeRequests :
       LET r == requests[i]
       IN  \A k \in DOMAIN r.calls :
              LET step == FlowOf(r)[k]
                  before == OwnContext(r, k - 1)
              IN  step.inputIsDict =>
                    \A e \in DOMAIN step.input :
                       (IsDirectRef(step.input[e].v)
                          /\ RefName(step.input[e].v) \in DOMAIN before)
                       => /\ step.input[e].k \in DOMAIN r.calls[k].input
                          /\ r.calls[k].input[step.input[e].k]
                                = before[RefName(step.input[e].v)]

\* step 2 of the chain has received, under text, the dict step 1 returned,
\* and another step has received a seeded value that is no str
C3_Witness ==
    /\ \E i \in RecipeRequests :
          /\ requests[i].target = RecipeChain.endpoint
          /\ Len(requests[i].calls) = 2
          /\ requests[i].calls[2].input[s_text] = requests[i].calls[1].result
          /\ requests[i].calls[1].result.type = "dict"
    /\ \E i \in RecipeRequests :
          /\ requests[i].target = RecipeNews.endpoint
          /\ Len(requests[i].calls) = 1
          /\ requests[i].calls[1].input[s_from_date].type = "int"

\* step n of the flow has been evaluated by the invocation: its skill has
\* been invoked, or the invocation failed while evaluating it
Evaluated(r, n) ==
    /\ n \in DOMAIN FlowOf(r)
    /\ \/ Len(r.calls) >= n
       \/ Failed(r) /\ r.step = n /\ Len(r.calls) = n - 1

\* the recipe declares a parameter named x with optional: true
DeclaredOptional(r, x) ==
    \E p \in DOMAIN recipes[r.target].parameters :
       /\ recipes[r.target].parameters[p].name = x
       /\ recipes[r.target].parameters[p].optional

\* the entries of the mapping input of step n that are a direct reference
\* "$x" with x absent from the context the step is evaluated in, x being
\* declared optional or not as wanted
AbsentRefs(r, n, optional) ==
    {e \in DOMAIN FlowOf(r)[n].input :
        /\ IsDirectRef(FlowOf(r)[n].input[e].v)
        /\ RefName(FlowOf(r)[n].input[e].v) \notin DOMAIN OwnContext(r, n - 1)
        /\ DeclaredOptional(r, RefName(FlowOf(r)[n].input[e].v)) = optional}

\* the entries of the mapping input of step n whose resolution raises
FailingEntries(r, n) ==
    {e \in DOMAIN FlowOf(r)[n].input :
        ~ResolveEntry(recipes[r.target], OwnContext(r, n - 1),
                      FlowOf(r)[n].input[e].v).ok}

MappingStepsEvaluated(r) ==
    {n \in DOMAIN FlowOf(r) :
        /\ Evaluated(r, n)
        /\ FlowOf(r)[n].inputIsDict
        /\ FlowOf(r)[n].skill \in DOMAIN skills}

MissingError(x) == Raise("KeyError", "required", x)

\* C4 as stated: for every reference "$x" of a mapping input with x not
\* optional and absent, the invocation fails with the missing-variable error
\* naming x, and the skill of that step has not been invoked.
C4_EveryMissingVariableNamed ==
    \A i \in RecipeRequests :
       LET r == requests[i]
       IN  \A n \in MappingStepsEvaluated(r) :
              \A e \in AbsentRefs(r, n, FALSE) :
                 /\ Failed(r)
                 /\ Len(r.calls) = n - 1
                 /\ r.err = MissingError(RefName(FlowOf(r)[n].input[e].v))

\* C4 amended: a step whose mapping input holds a reference "$x" with x not
\* optional and absent makes the invocation fail with neither its skill nor
\* a later one invoked; the error is that of the first entry of the mapping
\* that fails, so it names x when the entry of x is that entry.
C4_FirstMissingVariableNamed ==
    \A i \in RecipeRequests :
       LET r == requests[i]
       IN  \A n \in MappingStepsEvaluated(r) :
              AbsentRefs(r, n, FALSE) # {} =>
                 LET first == CHOOSE e \in FailingEntries(r, n) :
                                 \A o \in FailingEntries(r, n) : e <= o
                 IN  /\ Failed(r)
                     /\ Len(r.calls) = n - 1
                     /\ r.step = n
                     /\ first \in AbsentRefs(r, n, FALSE) =>
                          r.err = MissingError(RefName(FlowOf(r)[n].input[first].v))

\* an invocation has failed on its one missing variable, and another on the
\* first of its two missing variables
C4_Witness ==
    /\ \E i \in RecipeRequests :
          /\ Failed(requests[i])
          /\ requests[i].calls = <<>>
          /\ Cardinality(AbsentRefs(requests[i], 1, FALSE)) = 1
          /\ requests[i].err = MissingError(s_d)
    /\ \E i \in RecipeRequests :
          /\ Failed(requests[i])
          /\ requests[i].calls = <<>>
          /\ Cardinality(AbsentRefs(requests[i], 1, FALSE)) = 2
          /\ requests[i].err = MissingError(s_q)

\* C5 as stated: for every entry "$x" of a mapping input with x optional and
\* absent, execution does not fail and the skill of the step is invoked with
\* an input that has no entry under that key.
C5_OptionalAbsentNeverFails ==
    \A i \in RecipeRequests :
       LET r == requests[i]
       IN  \A n \in MappingStepsEvaluated(r) :
              \A e \in AbsentRefs(r, n, TRUE) :
                 /\ Len(r.calls) >= n
                 /\ FlowOf(r)[n].input[e].k \notin DOMAIN r.calls[n].input

\* C5 amended: an entry "$x" with x optional and absent raises no error and
\* is left out of the input; when every other entry of the mapping
\* resolves, the skill of the step is invoked with exactly the other
\* entries, resolved.
C5_OptionalAbsentOmitted ==
    \A i \in RecipeRequests :
       LET r == requests[i]
       IN  \A n \in MappingStepsEvaluated(r) :
              \A e \in AbsentRefs(r, n, TRUE) :
                 LET input == FlowOf(r)[n].input
                     rest == DOMAIN input \ AbsentRefs(r, n, TRUE)
                     resolved(o) == ResolveEntry(recipes[r.target],
                                                 OwnContext(r, n - 1), input[o].v)
                 IN  /\ r.err # MissingError(RefName(input[e].v))
                     /\ (\A o \in rest : resolved(o).ok) =>
                          /\ Len(r.calls) >= n
                          /\ DOMAIN r.calls[n].input = {input[o].k : o \in rest}
                          /\ \A o \in rest :
                                r.calls[n].input[input[o].k] = resolved(o).value

\* the news search has been invoked without language, the optional variable
\* lang being absent, and with its three other entries
C5_Witness ==
    \E i \in RecipeRequests :
       /\ requests[i].target = RecipeNews.endpoint
       /\ AbsentRefs(requests[i], 1, TRUE) # {}
       /\ Len(requests[i].calls) = 1
       /\ DOMAIN requests[i].calls[1].input = {s_query, s_from_date, s_sort_by}

\* the recipe requests that hold their seeded context: no step has stored
\* a result yet
Seeded == {i \in RecipeRequests : requests[i].step = 1}

DeclaredNames(recipe) == {recipe.parameters[p].name : p \in DOMAIN recipe.parameters}
AliasesOf(param) == {param.aliases[a] : a \in DOMAIN param.aliases}

\* C6: a declared parameter whose value the payload gives under one alias
\* only is bound under its declared name, and the context has no entry under
\* the alias; parameter q with alias query and payload {query: rust} give the
\* context {q: rust}.
C6_AliasBoundUnderDeclaredName ==
    \A i \in Seeded :
       LET recipe == recipes[requests[i].target]
           payload == requests[i].body.json
           ctx == contexts[Frame(i)]
       IN  /\ \A p \in DOMAIN recipe.parameters :
                LET param == recipe.parameters[p]
                    given == AliasesOf(param) \cap DOMAIN payload
                IN  (recipe.hasParameters /\ param.name \notin DOMAIN payload
                       /\ Cardinality(given) = 1)
                    => \A a \in given :
                          /\ param.name \in DOMAIN ctx
                          /\ ctx[param.name] = payload[a]
                          /\ a \notin DeclaredNames(recipe) => a \notin DOMAIN ctx
           /\ (recipe.endpoint = RecipeNews.endpoint /\ payload = PayloadC)
                => ctx = [k \in {s_q} |-> StrV(s_rust)]

\* the news recipe has been seeded from {query: rust}
C6_Witness ==
    \E i \in Seeded :
       /\ requests[i].target = RecipeNews.endpoint
       /\ requests[i].body.json = PayloadC
       /\ s_q \in DOMAIN contexts[Frame(i)]

RECURSIVE RunAlone(_, _, _)
RunAlone(recipe, ctx, n) ==
    IF n > Len(recipe.flow) THEN FinalResult(recipe, ctx)
    ELSE LET step == recipe.flow[n]
         IN  IF step.skill \notin DOMAIN skills
             THEN Fail(Raise("KeyError", "skill", step.skill))
             ELSE LET cls == skills[step.skill].cls
                      built == BuildInput(recipe, step, cls, ctx)
                      run == SkillRun(cls, built.input)
                  IN  IF ~built.ok THEN Fail(built.err)
                      ELSE IF ~run.ok THEN Fail(run.err)
                      ELSE RunAlone(recipe, DictSet(ctx, step.output, run.value), n + 1)

\* C8: whatever the interleaving of the invocations, the context an
\* invocation works on holds what its own payload seeded and what its own
\* earlier steps stored, nothing else, and the invocation ends with the
\* result, or the error, it ends with when run alone.
C8_InvocationsIsolated ==
    \A i \in RecipeRequests :
       LET r == requests[i]
           recipe == recipes[r.target]
           alone == RunAlone(recipe, SeedContext(recipe, r.body.json), 1)
       IN  r.step >= 1 =>
             /\ contexts[Frame(i)] = OwnContext(r, r.step - 1)
             /\ Succeeded(r) => alone.ok /\ r.result = alone.value
             /\ Failed(r) => ~alone.ok /\ r.err = alone.err

\* two invocations of the same recipe with different payloads are both
\* inside the skill of step 2, each holding its own result of step 1
C8_Witness ==
    \E i, j \in RecipeRequests :
       /\ i # j
       /\ requests[i].target = requests[j].target
       /\ requests[i].body # requests[j].body
       /\ requests[i].state = "in_skill" /\ requests[j].state = "in_skill"
       /\ requests[i].step = 2 /\ requests[j].step = 2
       /\ contexts[Frame(i)] # contexts[Frame(j)]

\* C9: once the start-up load is over, no step of the program changes the
\* skill registry or the recipe table: no entry is added or removed and no
\* field of a registered recipe, the steps of its flow included, is changed.
C9_TablesReadOnlyAfterLoad ==
    [][phase = "serving" => (skills' = skills /\ recipes' = recipes)]_vars

\* a recipe definition as its file declares it: no step has an output_type
AsDeclared(recipe) ==
    [recipe EXCEPT !.flow = [n \in DOMAIN recipe.flow |->
                               [recipe.flow[n] EXCEPT !.output_type = ""]]]

RequirementsMet(recipe) ==
    \A s \in DOMAIN recipe.required_skills : recipe.required_skills[s] \in DOMAIN skills

\* C10: after loading, every recipe definition of the directory whose
\* required skills are all in the registry is in the recipe table under its
\* endpoint and has its route, every definition with a required skill that
\* is not registered is in neither, whatever was rejected before it, and the
\* table holds nothing else.
C10_RegisteredIffRequirementsMet ==
    phase = "serving" =>
       /\ \A f \in DOMAIN recipe_files :
             LET recipe == recipe_files[f].recipe
             IN  recipe_files[f].loads =>
                   IF RequirementsMet(recipe)
                   THEN /\ recipe.endpoint \in DOMAIN recipes
                        /\ AsDeclared(recipes[recipe.endpoint]) = recipe
                        /\ Route("recipe", recipe.endpoint) \in routes
                   ELSE /\ recipe.endpoint \notin DOMAIN recipes
                        /\ Route("recipe", recipe.endpoint) \notin routes
       /\ \A e \in DOMAIN recipes :
             \E f \in DOMAIN recipe_files :
                recipe_files[f].loads /\ recipe_files[f].recipe.endpoint = e

\* the load is over: a definition with an unregistered required skill was
\* rejected, and one scanned after it is registered
C10_Witness ==
    /\ phase = "serving"
    /\ \E f, g \in DOMAIN recipe_files :
          /\ f < g
          /\ recipe_files[f].loads /\ ~RequirementsMet(recipe_files[f].recipe)
          /\ recipe_files[g].loads
          /\ recipe_files[g].recipe.endpoint \in DOMAIN recipes

\* the error of self.skills[step["skill"]] for a skill that is not registered
SkillLookupError(skill) == Raise("KeyError", "skill", skill)

\* C11: every recipe of the recipe table references registered skills only:
\* the skill of every step of its flow is a key of the skill registry, and
\* no invocation of a registered recipe fails on the lookup of a step's skill.
C11_FlowSkillsRegistered ==
    /\ \A e \in DOMAIN recipes :
          \A n \in DOMAIN recipes[e].flow : recipes[e].flow[n].skill \in DOMAIN skills
    /\ \A i \in RecipeRequests :
          \A n \in DOMAIN FlowOf(requests[i]) :
             requests[i].err # SkillLookupError(FlowOf(requests[i])[n].skill)

\* the text of an exception as the model writes it: its class, then its message
Message(err) == StrV(<<err.exc, err.kind>> \o err.name)

\* the invocations of the request whose skill has raised: the call is over
\* and run, given that input, raises
RaisedCalls(r) ==
    {n \in DOMAIN r.calls :
        /\ ~(r.state = "in_skill" /\ n = Len(r.calls))
        /\ ~SkillRun(skills[r.calls[n].skill].cls, r.calls[n].input).ok}

\* C12: when the skill of step n raises, the invocation is in its failure
\* state for good: no step after n is invoked, the caller gets status 500
\* with an error object carrying the message of the exception, and no result,
\* that of a completed step included, is returned.
C12_SkillErrorEndsInvocation ==
    \A i \in RecipeRequests :
       LET r == requests[i]
       IN  \A n \in RaisedCalls(r) :
              LET err == SkillRun(skills[r.calls[n].skill].cls, r.calls[n].input).err
              IN  /\ r.state = "done"
                  /\ Len(r.calls) = n /\ r.step = n
                  /\ r.response.status = 500
                  /\ r.response.ctype = "application/json"
                  /\ DOMAIN r.response.body.items = {s_error}
                  /\ r.response.body.items[s_error] = Message(err)
                  /\ r.result = NoValue
                  /\ \A k \in 1..(n - 1) :
                        /\ r.calls[k].result # NoValue
                        /\ r.response.body # r.calls[k].result

\* the skill of step 2 has raised after step 1 returned a dict, and the
\* skill of a step 1 that has a step after it has raised
C12_Witness ==
    /\ \E i \in RecipeRequests :
          /\ 2 \in RaisedCalls(requests[i])
          /\ requests[i].calls[1].result.type = "dict"
    /\ \E i \in RecipeRequests :
          /\ 1 \in RaisedCalls(requests[i])
          /\ Len(FlowOf(requests[i])) = 2

\* the template strings of the recipes, by their parts
SummaryTemplate == <<Lit(<<"S", ":">>), Var(<<s_a, s_text>>), Lit(<<"!">>)>>
Templates == {HelloTemplate, SortTemplate, SummaryTemplate}
TemplateString == [parts \in Templates |-> StrV(TemplateText(parts))]

\* every key of the path is found, each in the mapping reached so far
RECURSIVE PathResolves(_, _)
PathResolves(mapping, path) ==
    \/ path = <<>>
    \/ /\ Head(path) \in DOMAIN mapping
       /\ Tail(path) # <<>> => mapping[Head(path)].type = "dict"
       /\ PathResolves(mapping[Head(path)].items, Tail(path))

\* the value reached by the path, for a path that resolves
RECURSIVE ValueAt(_, _)
ValueAt(mapping, path) ==
    IF Len(path) = 1 THEN mapping[Head(path)]
    ELSE ValueAt(mapping[Head(path)].items, Tail(path))

\* the parts in their order: literal text as it is, {$path} as the text of
\* the value the path reaches
RECURSIVE Rendered(_, _)
Rendered(parts, ctx) ==
    IF parts = <<>> THEN <<>>
    ELSE (IF Head(parts).var THEN ValueAt(ctx, Head(parts).path).val
          ELSE Head(parts).text)
         \o Rendered(Tail(parts), ctx)

Paths(parts) == {parts[p].path : p \in {q \in DOMAIN parts : parts[q].var}}

\* the entries of the mapping input of step n that are the template string
\* of these parts
TemplateEntries(r, n, parts) ==
    {e \in DOMAIN FlowOf(r)[n].input :
        FlowOf(r)[n].input[e].v = TemplateString[parts]}

\* C13: an input string with embedded templates reaches the skill as a str
\* in which every {$path} is replaced by the text of the value the dotted
\* path reaches from the context, each occurrence on its own, the literal
\* text around them kept; context {user: {name: Ann}} and
\* "Hello {$user.name}!" give "Hello Ann!".
C13_TemplatesResolved ==
    \A i \in RecipeRequests :
       LET r == requests[i]
       IN  \A n \in DOMAIN r.calls : \A parts \in Templates :
              \A e \in TemplateEntries(r, n, parts) :
                 LET ctx == OwnContext(r, n - 1)
                     given == r.calls[n].input[FlowOf(r)[n].input[e].k]
                 IN  /\ \A path \in Paths(parts) : PathResolves(ctx, path)
                     /\ given = StrV(Rendered(parts, ctx))
                     /\ (parts = HelloTemplate
                           /\ ctx[s_user] = DictV(ctx[s_user].val,
                                                  [k \in {s_name} |-> StrV(s_Ann)]))
                        => given.val = <<"H", "e", "l", "l", "o", " ", "A", "n", "n", "!">>

\* the search of /digest has been invoked with "Hello Ann!" and with
\* "Ann-5Ann", two occurrences of one path around a literal and an int
C13_Witness ==
    \E i \in RecipeRequests :
       /\ requests[i].target = RecipeDigest.endpoint
       /\ Len(requests[i].calls) >= 1
       /\ requests[i].calls[1].input[s_query].val
            = <<"H", "e", "l", "l", "o", " ", "A", "n", "n", "!">>
       /\ requests[i].calls[1].input[s_sort_by]
            = StrV(<<"A", "n", "n", "-", "5", "A", "n", "n">>)
       /\ OwnContext(requests[i], 0)[s_d].type = "int"

\* a key of the path is missing: the first one from the context, or a later
\* one from the nested mapping reached so far
RECURSIVE MissingKey(_, _)
MissingKey(mapping, path) ==
    /\ path # <<>>
    /\ \/ Head(path) \notin DOMAIN mapping
       \/ /\ Head(path) \in DOMAIN mapping
          /\ mapping[Head(path)].type = "dict"
          /\ MissingKey(mapping[Head(path)].items, Tail(path))

RECURSIVE FirstMissingKey(_, _)
FirstMissingKey(mapping, path) ==
    IF Head(path) \notin DOMAIN mapping THEN Head(path)
    ELSE FirstMissingKey(mapping[Head(path)].items, Tail(path))

\* the paths of the parts, in their order, that have a missing key
MissingPaths(parts, ctx) ==
    {p \in DOMAIN parts : parts[p].var /\ MissingKey(ctx, parts[p].path)}

LookupError(key) == Raise("KeyError", "lookup", key)

\* C14: when a key of the path of an embedded template is missing, the
\* first from the context or a later one from a nested mapping, whether or
\* not the variable is declared optional, the invocation fails with a
\* KeyError, neither the skill of the step nor a later one is invoked, and
\* nothing is put in place of the template; the error is the lookup error of
\* the missing key when that template is the first input to fail.
C14_MissingTemplateKeyFails ==
    \A i \in RecipeRequests :
       LET r == requests[i]
       IN  \A n \in MappingStepsEvaluated(r) : \A parts \in Templates :
              \A e \in TemplateEntries(r, n, parts) :
                 LET ctx == OwnContext(r, n - 1)
                     missing == MissingPaths(parts, ctx)
                     first == CHOOSE p \in missing : \A o \in missing : p <= o
                 IN  missing # {} =>
                       /\ Failed(r)
                       /\ Len(r.calls) = n - 1 /\ r.step = n
                       /\ r.err.exc = "KeyError"
                       /\ (\A o \in FailingEntries(r, n) : e <= o)
                            => r.err = LookupError(FirstMissingKey(ctx, parts[first].path))

\* an invocation has failed on the first key of a path, the variable being
\* declared optional, and another on the second key, missing from a mapping
\* of the payload
C14_Witness ==
    /\ \E i \in RecipeRequests :
          /\ Failed(requests[i])
          /\ requests[i].err = LookupError(s_user)
          /\ DeclaredOptional(requests[i], s_user)
          /\ requests[i].calls = <<>>
    /\ \E i \in RecipeRequests :
          /\ Failed(requests[i])
          /\ requests[i].err = LookupError(s_name)
          /\ s_user \in DOMAIN OwnContext(requests[i], 0)
          /\ requests[i].calls = <<>>

\* the steps of the flow with a single-expression input that the invocation
\* has evaluated, their skill being registered
SingleStepsEvaluated(r) ==
    {n \in DOMAIN FlowOf(r) :
        /\ Evaluated(r, n)
        /\ ~FlowOf(r)[n].inputIsDict
        /\ FlowOf(r)[n].skill \in DOMAIN skills}

FirstParameter(skill) == SkillClasses[skills[skill].cls].params[1].name

\* C15: a single-expression input is resolved against the context by the
\* rules of a mapping value ("$name" gives the context value of name) and
\* the skill is invoked with the resolved value under its first parameter;
\* the invocation fails only when the expression does not resolve.
C15_SingleExpressionResolved ==
    \A i \in RecipeRequests :
       LET r == requests[i]
       IN  \A n \in SingleStepsEvaluated(r) :
              LET step == FlowOf(r)[n]
                  resolved == ResolveEntry(recipes[r.target], OwnContext(r, n - 1),
                                           step.single)
              IN  IF resolved.ok /\ ~resolved.skip
                  THEN /\ Len(r.calls) >= n
                       /\ r.calls[n].input
                            = [k \in {FirstParameter(step.skill)} |-> resolved.value]
                  ELSE ~resolved.ok =>
                         Failed(r) /\ Len(r.calls) = n - 1 /\ r.err = resolved.err

CapabilitiesRequests == {i \in 1..NReq : requests[i].kind = "capabilities"}

\* C16: discovery is idempotent after the load: the schema a call of
\* get_capabilities has returned is the schema a call returns in every later
\* state, whatever skill or recipe invocations have run since (same skills,
\* same recipes, same fields of every recipe, its flow included).
C16_DiscoveryIdempotent ==
    \A i \in CapabilitiesRequests :
       requests[i].state = "done" =>
          requests[i].capabilities = GetCapabilities(skills, recipes)

\* the class name load_skills expects of every file a skills directory may hold
PluginFiles == UNION {{dir[f] : f \in DOMAIN dir} : dir \in SkillDirs}
ExpectedClass == [file \in PluginFiles |-> ClassName(file.stem)]

\* the files of the skills directory that load_skills has gone through
ScannedSkillFiles ==
    IF phase \in {"load_skills", "crashed"} THEN 1..scanned ELSE DOMAIN skill_files

\* the scanned files that were loaded under this class name
LoadedAs(cls) ==
    {f \in ScannedSkillFiles :
        LoadOutcome(skill_files[f]) = "load" /\ ExpectedClass[skill_files[f]] = cls}

\* C17: first registration wins: the instance the registry holds under a
\* skill identifier is the one made from the first file loaded under that
\* identifier; a later file that derives the same identifier does not
\* replace it.
C17_FirstRegistrationWins ==
    \A cls \in DOMAIN skills :
       LET first == CHOOSE f \in LoadedAs(cls) : \A o \in LoadedAs(cls) : f <= o
       IN  /\ LoadedAs(cls) # {}
           /\ skills[cls] = Instance(skill_files[first])

\* the import of the module fails, or the module has no class of the
\* expected name
ImportFails(file) == ~file.importable
ClassMissing(file) == file.importable /\ ExpectedClass[file] \notin file.classes
Loadable(file) ==
    /\ file.importable
    /\ ExpectedClass[file] \in file.classes
    /\ file.ctor = "none"

SkillRequests == {i \in 1..NReq : requests[i].kind = "skill"}

\* the registered skills whose class sets hiddenCapability
HiddenSkills == {c \in DOMAIN skills : SkillClasses[c].hidden}

\* C19: the skills listing of get_capabilities holds every registered skill
\* that is not hidden and no hidden one; a hidden skill has its direct route
\* like any other skill, the route runs it like any other, and a recipe step
\* that names it finds it in the registry.
C19_HiddenUnlistedYetInvocable ==
    /\ \A i \in CapabilitiesRequests :
          requests[i].state = "done" =>
             /\ DOMAIN requests[i].capabilities.skills
                   = {CamelToSnake(c) : c \in DOMAIN skills \ HiddenSkills}
             /\ \A c \in HiddenSkills :
                   CamelToSnake(c) \notin DOMAIN requests[i].capabilities.skills
    /\ phase = "serving" => \A c \in DOMAIN skills : Route("skill", c) \in routes
    /\ \A i \in SkillRequests :
          LET r == requests[i]
              run == SkillRun(r.target, r.body.json)
          IN  (r.state = "done" /\ r.body.is_json) =>
                 IF run.ok THEN Succeeded(r) /\ r.result = run.value
                 ELSE Failed(r) /\ r.err = run.err
    /\ \A i \in RecipeRequests :
          \A c \in HiddenSkills : requests[i].err # SkillLookupError(c)

\* a listing has been returned without the hidden skill TextCompletion while
\* the skill is registered and has its direct route, and a recipe has
\* returned what the skill gave as the output of its second step
C19_Witness ==
    /\ TextCompletion \in HiddenSkills
    /\ \E i \in CapabilitiesRequests :
          /\ requests[i].state = "done"
          /\ CamelToSnake(TextCompletion) \notin DOMAIN requests[i].capabilities.skills
          /\ CamelToSnake(HtmlTextParser) \in DOMAIN requests[i].capabilities.skills
    /\ Route("skill", TextCompletion) \in routes
    /\ \E i \in RecipeRequests :
          /\ Succeeded(requests[i])
          /\ Len(requests[i].calls) = 2
          /\ requests[i].calls[2].skill = TextCompletion
          /\ requests[i].result.type = "str"

IsAsync(skill) == SkillClasses[skill].isAsync

\* the invocations of the request that are over
CompletedCalls(r) ==
    {n \in DOMAIN r.calls : ~(r.state = "in_skill" /\ n = Len(r.calls))}

\* C20: whether run of the skill is a plain function or a coroutine
\* function, what is stored under the output key of the step, and what the
\* direct route of the skill returns, is the completed result of run, never
\* a coroutine still to be awaited, and a step begins only when the one
\* before it has its result.
C20_InvokeUniform ==
    /\ \A i \in RecipeRequests :
          LET r == requests[i]
          IN  /\ \A n \in CompletedCalls(r) :
                    LET run == SkillRun(r.calls[n].skill, r.calls[n].input)
                    IN  run.ok =>
                          /\ r.calls[n].result = run.value
                          /\ r.calls[n].result.type # "coroutine"
                          /\ (r.state = "running" /\ n = r.step - 1) =>
                                contexts[Frame(i)][r.calls[n].output] = run.value
              /\ \A n \in DOMAIN r.calls :
                    n < Len(r.calls) => r.calls[n].result # NoValue
    /\ \A i \in SkillRequests :
          LET r == requests[i]
          IN  Succeeded(r) =>
                 /\ r.result = SkillRun(r.target, r.body.json).value
                 /\ r.result.type # "coroutine"
                 /\ r.response.body = r.result

\* a recipe has passed the result of a coroutine function (step 1) to a
\* plain function (step 2) and returned its result, and the direct route of
\* a coroutine function has returned its result
C20_Witness ==
    /\ \E i \in RecipeRequests :
          /\ Succeeded(requests[i])
          /\ Len(requests[i].calls) = 2
          /\ IsAsync(requests[i].calls[1].skill)
          /\ ~IsAsync(requests[i].calls[2].skill)
          /\ requests[i].calls[1].result.type = "dict"
    /\ \E i \in SkillRequests :
          /\ Succeeded(requests[i])
          /\ IsAsync(requests[i].target)
          /\ requests[i].result.type = "dict"

\* the recipe invocations that have been started and have not yet answered
Busy(i) == requests[i].kind = "recipe" /\ requests[i].state \in {"running", "in_skill"}

\* C21: suspension is per-invocation: whether or not the skill entered by
\* the first request ever returns, every other recipe invocation whose own
\* skills return executes its steps and delivers its answer.
C21_SuspensionPerInvocation ==
    \A j \in 2..NReq : Busy(j) ~> (requests[j].state = "done")

\* the first invocation is inside the skill of its first step, and an
\* invocation that arrived after it has run its two steps and returned
C21_Witness ==
    /\ Busy(1) /\ requests[1].state = "in_skill" /\ Len(requests[1].calls) = 1
    /\ \E j \in 2..NReq :
          /\ requests[j].kind = "recipe"
          /\ Succeeded(requests[j])
          /\ Len(requests[j].calls) = 2

\* the requests that the step answers with a result
Answered(i) ==
    /\ requests[i].state # "done"
    /\ requests'[i].state = "done"
    /\ requests'[i].kind \in {"skill", "recipe"}
    /\ requests'[i].response.status = 200

\* the shape the claim gives to the answer of a result
ShapeOf(result) == IF result.type = "dict" THEN "application/json" ELSE "text/plain"

IsRef(v) == v.type = "str" /\ StartsWith(v.val, "$")
NameOf(v) == Strip(v.val, "$")

\* the output keys of the steps of the flow at the positions ks
OutputKeys(r, ks) == {FlowOf(r)[k].output : k \in ks \cap DOMAIN FlowOf(r)}

\* at step n, x is a name that the payload has not seeded and that is
\* written only as the output key of step n or of a later step
WrittenNoEarlier(r, n, x) ==
    /\ x \notin DOMAIN SeedContext(recipes[r.target], r.body.json)
    /\ x \notin OutputKeys(r, 1..(n - 1))
    /\ x \in OutputKeys(r, n..Len(FlowOf(r)))

\* the entries of the mapping input of step n that refer to such a name
EarlyRefs(r, n) ==
    {e \in DOMAIN FlowOf(r)[n].input :
        /\ IsRef(FlowOf(r)[n].input[e].v)
        /\ WrittenNoEarlier(r, n, NameOf(FlowOf(r)[n].input[e].v))}

\* the step evaluates the mapping input of the step of the flow that
\* request i has come to: the skill of the step is entered, or the
\* invocation fails
EvaluatesMapping(i) ==
    /\ requests[i].kind = "recipe" /\ Runnable(i)
    /\ requests[i].step \in DOMAIN FlowOf(requests[i])
    /\ FlowOf(requests[i])[requests[i].step].inputIsDict
    /\ FlowOf(requests[i])[requests[i].step].skill \in DOMAIN skills
    /\ requests'[i] # requests[i]

\* C23: a reference at step n to a name that is no seeded parameter and is
\* written only as the output key of step n or of a later step never gets a
\* value: when step n is evaluated the name is not in the context; when it
\* is declared optional the entry is left out of the input of the skill,
\* and otherwise the invocation fails there, before the skill of step n is
\* invoked, with the missing-variable error of the name when its entry is
\* the first one of the step to fail.
C23_NoReadBeforeWrite ==
    [][\A i \in 1..NReq :
          EvaluatesMapping(i) =>
             LET r == requests'[i]
                 n == requests[i].step
             IN  \A e \in EarlyRefs(r, n) :
                    LET entry == FlowOf(r)[n].input[e]
                        x == NameOf(entry.v)
                    IN  /\ x \notin DOMAIN contexts[Frame(i)]
                        /\ x \notin DOMAIN OwnContext(r, n - 1)
                        /\ IF DeclaredOptional(r, x)
                           THEN /\ r.err # MissingError(x)
                                /\ Len(r.calls) >= n =>
                                      entry.k \notin DOMAIN r.calls[n].input
                           ELSE /\ Failed(r)
                                /\ Len(r.calls) = n - 1 /\ r.step = n
                                /\ (\A o \in FailingEntries(r, n) : e <= o)
                                      => r.err = MissingError(x)]_vars

\* step 1 of an invocation has failed on the name that only step 2 writes,
\* and step 1 of another has been invoked without the entry of the optional
\* name that it writes itself, and has then written it
C23_Witness ==
    /\ \E i \in RecipeRequests :
          /\ Failed(requests[i])
          /\ requests[i].calls = <<>>
          /\ EarlyRefs(requests[i], 1) # {}
          /\ Len(FlowOf(requests[i])) = 2
          /\ requests[i].err = MissingError(FlowOf(requests[i])[2].output)
    /\ \E i \in RecipeRequests :
          /\ Succeeded(requests[i])
          /\ \E e \in EarlyRefs(requests[i], 1) :
                LET entry == FlowOf(requests[i])[1].input[e]
                IN  /\ NameOf(entry.v) = FlowOf(requests[i])[1].output
                    /\ entry.k \notin DOMAIN requests[i].calls[1].input
                    /\ NameOf(entry.v) \in DOMAIN OwnContext(requests[i], 1)

\* the constructor of the class of the file is reached and raises an
\* exception that is neither an ImportError nor an AttributeError
CtorEscapes(file) ==
    /\ ~(Len(file.stem) >= 2 /\ file.stem[1] = "_" /\ file.stem[2] = "_")
    /\ file.importable
    /\ ExpectedClass[file] \in file.classes
    /\ file.ctor \notin {"none", "ImportError", "AttributeError"}

\* C24: when load_skills comes to a plugin whose constructor raises an
\* exception that is neither an ImportError nor an AttributeError, the
\* exception leaves the load and the construction of the manager: the
\* registry keeps what was loaded before and gets nothing more, and from
\* then on nothing changes, so that no later plugin is registered and no
\* skill, recipe or capabilities route ever exists.
C24_CtorExceptionPropagates ==
    [][/\ phase # "crashed"
       /\ (/\ phase = "load_skills"
           /\ scanned < Len(skill_files)
           /\ CtorEscapes(skill_files[scanned + 1]))
             => /\ phase' = "crashed"
                /\ skills' = skills
                /\ routes' = {} /\ recipes' = EmptyDict]_vars

\* the load has been left at the third file, after one plugin whose
\* constructor raised ImportError was passed over and one was loaded; a
\* loadable plugin is left unscanned and there is no route
C24_Witness ==
    /\ phase = "crashed"
    /\ CtorEscapes(skill_files[scanned])
    /\ \E f \in 1..(scanned - 1) : skill_files[f].ctor = "ImportError"
    /\ \E f \in 1..(scanned - 1) : ExpectedClass[skill_files[f]] \in DOMAIN skills
    /\ \E f \in (scanned + 1)..Len(skill_files) :
          /\ Loadable(skill_files[f]) /\ skill_files[f].ctor = "none"
          /\ ExpectedClass[skill_files[f]] \notin DOMAIN skills
    /\ routes = {} /\ recipes = EmptyDict
    /\ \A i \in 1..NReq : requests[i] = IdleRequest

\* the text between the first and the last character of v that is not "$"
Dollarless(v) ==
    LET kept == {j \in DOMAIN v : v[j] # "$"}
    IN  IF kept = {} THEN <<>>
        ELSE SubSeq(v, CHOOSE j \in kept : \A o \in kept : j <= o,
                       CHOOSE j \in kept : \A o \in kept : j >= o)

\* C25: when a mapping input is evaluated, every string value that begins
\* with "$" is one direct reference, whatever follows the "$": its variable
\* name is the value without its leading and trailing "$", templates of the
\* value being part of the name. With the name in the context the skill
\* gets the context value itself under the key of the entry; with the name
\* absent and not declared optional the invocation fails, with the
\* missing-variable error of that name when the entry is the first one of
\* the step to fail; a missing-variable error names no other text.
C25_DollarValueIsOneReference ==
    [][\A i \in 1..NReq :
          EvaluatesMapping(i) =>
             LET r == requests'[i]
                 n == requests[i].step
                 ctx == contexts[Frame(i)]
                 input == FlowOf(r)[n].input
             IN  /\ \A e \in DOMAIN input :
                       IsRef(input[e].v) =>
                          LET x == Dollarless(input[e].v.val)
                          IN  IF x \in DOMAIN ctx
                              THEN Len(r.calls) >= n =>
                                      /\ input[e].k \in DOMAIN r.calls[n].input
                                      /\ r.calls[n].input[input[e].k] = ctx[x]
                              ELSE ~DeclaredOptional(r, x) =>
                                      /\ Failed(r) /\ Len(r.calls) = n - 1
                                      /\ (\A o \in FailingEntries(r, n) : e <= o)
                                            => r.err = MissingError(x)
                 /\ (Failed(r) /\ r.err.kind = "required") =>
                       \E e \in DOMAIN input :
                          /\ IsRef(input[e].v)
                          /\ Dollarless(input[e].v.val) \notin DOMAIN ctx
                          /\ r.err = MissingError(Dollarless(input[e].v.val))]_vars

\* an invocation of /digest has passed the int seeded under d through "$$d"
\* (step 1) and through "$d$" (step 2), and the value seeded under the name
\* "d{$user.name}" through "$d{$user.name}"; another has failed on that name
C25_Witness ==
    /\ \E i \in RecipeRequests :
          /\ requests[i].target = RecipeDigest.endpoint
          /\ Len(requests[i].calls) = 2
          /\ FlowOf(requests[i])[1].input[3].v.val = <<"$", "$", "d">>
          /\ requests[i].calls[1].input[s_from_date] = requests[i].body.json[s_d]
          /\ FlowOf(requests[i])[2].input[1].v.val = <<"$", "d", "$">>
          /\ requests[i].calls[2].input[s_text] = requests[i].body.json[s_d]
          /\ requests[i].calls[2].input[s_text].type = "int"
          /\ FlowOf(requests[i])[1].input[1].v.val = <<"$">> \o s_d_user
          /\ requests[i].calls[1].input[s_to_date] = requests[i].body.json[s_query]
    /\ \E i \in RecipeRequests :
          /\ Failed(requests[i])
          /\ requests[i].calls = <<>>
          /\ requests[i].err = MissingError(s_d_user)

\* the recipe request i that is seeded by this step
IsSeeded(i) ==
    /\ requests[i].state = "idle"
    /\ requests'[i].kind = "recipe"
    /\ requests'[i].state = "running"

\* the positions of the aliases of a parameter that the payload holds
PresentAliases(param, payload) ==
    {a \in DOMAIN param.aliases : param.aliases[a] \in DOMAIN payload}

\* the last of them in declared order
LastPresentAlias(param, payload) ==
    CHOOSE a \in PresentAliases(param, payload) :
       \A b \in PresentAliases(param, payload) : b <= a

\* the declared parameters of a recipe: no two of them share a name
DeclaredOnce(recipe) ==
    \A p, q \in DOMAIN recipe.parameters :
       recipe.parameters[p].name = recipe.parameters[q].name => p = q

\* C26: when the payload holds the declared name of a parameter and one or
\* more of its aliases, the seeded context holds, under the declared name,
\* the value the payload gives under the last of those aliases in declared
\* order, whatever the payload gives under the declared name itself.
C26_LastPresentAliasWins ==
    [][\A i \in 1..NReq :
          IsSeeded(i) =>
             LET recipe == recipes[requests'[i].target]
                 payload == requests'[i].body.json
                 ctx == contexts'[Frame(i)]
             IN  (recipe.hasParameters /\ DeclaredOnce(recipe)) =>
                    \A p \in DOMAIN recipe.parameters :
                       LET param == recipe.parameters[p]
                       IN  (/\ param.name \in DOMAIN payload
                            /\ PresentAliases(param, payload) # {}) =>
                              /\ param.name \in DOMAIN ctx
                              /\ ctx[param.name] =
                                    payload[param.aliases[LastPresentAlias(param, payload)]]]_vars

\* a seeded request whose payload holds a declared name and two of its
\* aliases, all three with different values, and whose context holds the
\* value of the second alias under the declared name
C26_Witness ==
    \E i \in RecipeRequests :
       /\ requests[i].state = "running" /\ requests[i].step = 1
       /\ LET recipe == recipes[requests[i].target]
              payload == requests[i].body.json
          IN  /\ recipe.hasParameters /\ DeclaredOnce(recipe)
              /\ \E p \in DOMAIN recipe.parameters :
                    LET param == recipe.parameters[p]
                    IN  /\ Len(param.aliases) = 2
                        /\ {param.name, param.aliases[1], param.aliases[2]} \subseteq DOMAIN payload
                        /\ payload[param.aliases[1]] # payload[param.aliases[2]]
                        /\ payload[param.name] # payload[param.aliases[2]]
                        /\ contexts[Frame(i)][param.name] = payload[param.aliases[2]]

\* the skill of the step that request i has come to returns on this step
StoresResult(i) ==
    /\ requests[i].kind = "recipe" /\ requests[i].state = "in_skill"
    /\ requests'[i].state = "running"

\* the steps before step n of the flow of r whose output key is x
WritersBefore(r, n, x) == {j \in 1..(n - 1) : FlowOf(r)[j].output = x}

\* the last of them
LastWriterBefore(r, n, x) ==
    CHOOSE j \in WritersBefore(r, n, x) : \A o \in WritersBefore(r, n, x) : o <= j

\* C27: a step stores its result under its output key whether or not the
\* context already has an entry of that name, and changes no other entry; a
\* later direct reference to a name that earlier steps have written passes
\* the result of the last of those steps; the payload of the request stays
\* as the caller sent it.
C27_OutputOverwritesEntry ==
    [][\A i \in 1..NReq :
          /\ requests[i].kind = "recipe" => requests'[i].body = requests[i].body
          /\ StoresResult(i) =>
                LET r == requests'[i]
                    n == requests[i].step
                    key == FlowOf(r)[n].output
                    old == contexts[Frame(i)]
                    new == contexts'[Frame(i)]
                IN  /\ DOMAIN new = DOMAIN old \cup {key}
                    /\ new[key] = r.calls[n].result
                    /\ \A k \in DOMAIN old : k # key => new[k] = old[k]
          /\ EvaluatesMapping(i) =>
                LET r == requests'[i]
                    n == requests[i].step
                    input == FlowOf(r)[n].input
                IN  \A e \in DOMAIN input :
                       LET x == Dollarless(input[e].v.val)
                       IN  (/\ IsRef(input[e].v)
                            /\ WritersBefore(r, n, x) # {}
                            /\ Len(r.calls) >= n) =>
                              /\ input[e].k \in DOMAIN r.calls[n].input
                              /\ r.calls[n].input[input[e].k] =
                                    r.calls[LastWriterBefore(r, n, x)].result]_vars

\* a request whose first step has written its result under the name of a
\* seeded parameter, with a value other than the seeded one, and whose
\* second step has been given that result for its reference to the name
C27_Witness ==
    \E i \in RecipeRequests :
       LET r == requests[i]
           payload == r.body.json
       IN  /\ Len(r.calls) = 2
           /\ Len(FlowOf(r)) = 2 /\ FlowOf(r)[2].inputIsDict
           /\ LET key == FlowOf(r)[1].output
              IN  /\ key \in DOMAIN payload
                  /\ SeedContext(recipes[r.target], payload)[key] = payload[key]
                  /\ r.calls[1].result # payload[key]
                  /\ contexts[Frame(i)][key] = r.calls[1].result
                  /\ \E e \in DOMAIN FlowOf(r)[2].input :
                        /\ IsRef(FlowOf(r)[2].input[e].v)
                        /\ Dollarless(FlowOf(r)[2].input[e].v.val) = key
                        /\ r.calls[2].input[FlowOf(r)[2].input[e].k] = r.calls[1].result

====
